---------------------------- MODULE Spec2Model ----------------------------
(***************************************************************************)
(* A model of the two programs of the repository:                          *)
(*                                                                         *)
(*   prog = "parser"  src/bologna/bologna-cmake.cpp: gettok, the recursive *)
(*                    descent / precedence climbing parser and MainLoop.   *)
(*   prog = "lexer"   src/Bologna/Bologna/Bologna.cpp: class Lexer.        *)
(*                                                                         *)
(* Characters are their byte values (0..255), EOF is -1, a token of the    *)
(* parser is an int as in the source.  The productions are operators on    *)
(* the record of the parser's globals; every driver step is one action.    *)
(***************************************************************************)
EXTENDS Integers, Sequences, FiniteSets, TLC

VARIABLES
    prog,            \* which of the two executables runs
    input,           \* the bytes of standard input / of the Lexer's _text
    pc,              \* parser: "start" (main entered), "loop" (MainLoop), "done"
    pos,             \* parser: index of the next byte getchar() will deliver
    nread,           \* parser: number of getchar() calls made so far
    LastChar,        \* gettok's static LastChar
    IdentifierStr,   \* filled in if tok_identifier
    NumVal,          \* filled in if tok_number
    CurTok,          \* the parser's lookahead token
    BinopPrecedence, \* map<char,int>
    toks,            \* every value gettok returned, in call order
    log,             \* what was written to stderr (errors, "Parsed ...")
    unit,            \* MainLoop: the case of the switch taken last
    unitStart,       \* MainLoop: number of gettok calls when that case began
    logStart,        \* MainLoop: length of log when that case began
    result,          \* MainLoop: what the Parse* call of that case returned
    position,        \* Lexer::_position
    token,           \* Lexer: the SyntaxToken returned last
    prevToken,       \* Lexer: the SyntaxToken returned before that
    exc              \* Lexer: the exception that left NextToken, if any

vars == <<prog, input, pc, pos, nread, LastChar, IdentifierStr, NumVal, CurTok,
          BinopPrecedence, toks, log, unit, unitStart, logStart, result,
          position, token, prevToken, exc>>

---------------------------------------------------------------------------
(* Bounds of the model.                                                    *)

MaxOps == 3
MaxWords == 4
MaxBlank == 3
MaxParams == 2
MaxPieces == 3

---------------------------------------------------------------------------
(* Bytes.                                                                  *)

Ascii ==
    ("\t" :> 9) @@ ("\n" :> 10) @@ ("\r" :> 13) @@ (" " :> 32) @@
    ("#" :> 35) @@ ("(" :> 40) @@ (")" :> 41) @@ ("*" :> 42) @@ ("+" :> 43) @@
    ("," :> 44) @@ ("-" :> 45) @@ ("." :> 46) @@ ("/" :> 47) @@
    ("0" :> 48) @@ ("1" :> 49) @@ ("2" :> 50) @@ ("3" :> 51) @@ ("4" :> 52) @@
    ("5" :> 53) @@ ("6" :> 54) @@ ("7" :> 55) @@ ("8" :> 56) @@ ("9" :> 57) @@
    (";" :> 59) @@ ("<" :> 60) @@ ("@" :> 64) @@
    ("a" :> 97) @@ ("b" :> 98) @@ ("c" :> 99) @@ ("d" :> 100) @@ ("e" :> 101) @@
    ("f" :> 102) @@ ("i" :> 105) @@ ("n" :> 110) @@ ("o" :> 111) @@
    ("r" :> 114) @@ ("s" :> 115) @@ ("t" :> 116) @@ ("x" :> 120) @@
    ("HI" :> 200)

\* The bytes of a string given as a tuple of one-character strings.
Str(t) == [i \in 1..Len(t) |-> Ascii[t[i]]]

Ch(c) == Ascii[c]

EOF == -1

isspace(c) == c \in {9, 10, 11, 12, 13, 32}
isalpha(c) == c \in (65..90) \cup (97..122)
isdigit(c) == c \in 48..57
isalnum(c) == isalpha(c) \/ isdigit(c)
isascii(c) == c \in 0..127

---------------------------------------------------------------------------
(* src/bologna/bologna-cmake.cpp: tokens.                                  *)

tok_eof == -1
tok_def == -2
tok_extern == -3
tok_identifier == -4
tok_number == -5

\* The globals of the parser program, as one record the operators thread.
St == [pos |-> pos, nread |-> nread, LastChar |-> LastChar,
       IdentifierStr |-> IdentifierStr, NumVal |-> NumVal, CurTok |-> CurTok,
       BinopPrecedence |-> BinopPrecedence, toks |-> toks, log |-> log]

\* getchar(): the next byte of standard input, EOF once it is exhausted.
getchar(P) ==
    IF P.pos <= Len(input)
    THEN [P EXCEPT !.LastChar = input[P.pos], !.pos = @ + 1, !.nread = @ + 1]
    ELSE [P EXCEPT !.LastChar = EOF, !.nread = @ + 1]

\* Let(v, K) binds v once in K: the local variable of the source.
Let(v, K(_)) == K(v)

\* strtod(NumStr, nullptr): the value of the longest prefix that is a decimal
\* number (digits, optionally a '.' and digits, one digit at least), 0 when
\* there is none.  A value is its decimal digits, leading zeros of the integer
\* part and trailing zeros of the fraction removed.
RECURSIVE DigitRun(_)
DigitRun(s) ==
    IF s # <<>> /\ isdigit(Head(s)) THEN <<Head(s) - 48>> \o DigitRun(Tail(s))
    ELSE <<>>

RECURSIVE StripLeadingZeros(_)
StripLeadingZeros(d) ==
    IF d # <<>> /\ Head(d) = 0 THEN StripLeadingZeros(Tail(d)) ELSE d

RECURSIVE StripTrailingZeros(_)
StripTrailingZeros(d) ==
    IF d # <<>> /\ d[Len(d)] = 0 THEN StripTrailingZeros(SubSeq(d, 1, Len(d) - 1))
    ELSE d

FractionOf(rest) ==
    IF rest # <<>> /\ Head(rest) = 46 THEN DigitRun(Tail(rest)) ELSE <<>>

strtod(NumStr) ==
    Let(DigitRun(NumStr), LAMBDA ip :
        [ip |-> StripLeadingZeros(ip),
         fp |-> StripTrailingZeros(
                    FractionOf(SubSeq(NumStr, Len(ip) + 1, Len(NumStr))))])

\* while (isspace(LastChar)) LastChar = getchar();
RECURSIVE SkipWhitespace(_)
SkipWhitespace(P) ==
    IF isspace(P.LastChar) THEN SkipWhitespace(getchar(P)) ELSE P

\* while (isalnum((LastChar = getchar()))) IdentifierStr += LastChar;
RECURSIVE ReadIdentifier(_)
ReadIdentifier(P) ==
    Let(getchar(P), LAMBDA Q :
        IF isalnum(Q.LastChar)
        THEN ReadIdentifier([Q EXCEPT !.IdentifierStr = Append(@, Q.LastChar)])
        ELSE Q)

kw_def == Str(<<"d", "e", "f">>)
kw_extern == Str(<<"e", "x", "t", "e", "r", "n">>)

LexIdentifier(P) ==
    Let(ReadIdentifier([P EXCEPT !.IdentifierStr = <<P.LastChar>>]), LAMBDA Q :
        IF Q.IdentifierStr = kw_def THEN [tok |-> tok_def, P |-> Q]
        ELSE IF Q.IdentifierStr = kw_extern THEN [tok |-> tok_extern, P |-> Q]
        ELSE [tok |-> tok_identifier, P |-> Q])

\* do { NumStr += LastChar; LastChar = getchar(); }
\* while (isdigit(LastChar) || LastChar == '.');
RECURSIVE ReadNumber(_, _)
ReadNumber(P, NumStr) ==
    Let(getchar(P), LAMBDA Q :
        IF isdigit(Q.LastChar) \/ Q.LastChar = 46
        THEN ReadNumber(Q, Append(NumStr, P.LastChar))
        ELSE [P |-> Q, NumStr |-> Append(NumStr, P.LastChar)])

LexNumber(P) ==
    Let(ReadNumber(P, <<>>), LAMBDA r :
        [tok |-> tok_number, P |-> [r.P EXCEPT !.NumVal = strtod(r.NumStr)]])

\* do LastChar = getchar();
\* while (LastChar != EOF && LastChar != '\n' && LastChar != '\r');
RECURSIVE SkipComment(_)
SkipComment(P) ==
    Let(getchar(P), LAMBDA Q :
        IF Q.LastChar # EOF /\ Q.LastChar # 10 /\ Q.LastChar # 13
        THEN SkipComment(Q)
        ELSE Q)

\* LexEofOrChar, but eating the EOF: one more getchar() at the end of input.
LexEofOrChar_EatsEof(P) ==
    IF P.LastChar = EOF THEN [tok |-> tok_eof, P |-> getchar(P)]
    ELSE [tok |-> P.LastChar, P |-> getchar(P)]

\* Check for end of file (don't eat the EOF); otherwise return the character
\* as its ascii value.
LexEofOrChar(P) ==
    IF P.LastChar = EOF THEN [tok |-> tok_eof, P |-> P]
    ELSE [tok |-> P.LastChar, P |-> getchar(P)]

RECURSIVE gettok(_)

\* LexComment, but falling through after the comment instead of starting over.
LexComment_NoRestart(P) == LexEofOrChar(SkipComment(P))

\* if (LastChar == '#') { skip the comment; if (LastChar != EOF) return gettok(); }
LexComment(P) ==
    Let(SkipComment(P), LAMBDA Q :
        IF Q.LastChar # EOF THEN gettok(Q) ELSE LexEofOrChar(Q))

gettok(P) ==
    Let(SkipWhitespace(P), LAMBDA Q :
        IF isalpha(Q.LastChar) THEN LexIdentifier(Q)
        ELSE IF isdigit(Q.LastChar) \/ Q.LastChar = 46 THEN LexNumber(Q)
        ELSE IF Q.LastChar = 35 THEN LexComment(Q)
        ELSE LexEofOrChar(Q))

\* getNextToken: CurTok = gettok().  toks records what gettok returned and the
\* scan state it left.
getNextToken(P) ==
    Let(gettok(P), LAMBDA r :
        [r.P EXCEPT !.CurTok = r.tok,
                    !.toks = Append(@, [tok |-> r.tok,
                                        IdentifierStr |-> r.P.IdentifierStr,
                                        NumVal |-> r.P.NumVal,
                                        LastChar |-> r.P.LastChar,
                                        pos |-> r.P.pos,
                                        nread |-> r.P.nread])])

---------------------------------------------------------------------------
(* src/bologna/bologna-cmake.cpp: the abstract syntax tree.                *)

Null == [k |-> "null"]                                   \* nullptr
NumberExprAST(Val) == [k |-> "num", Val |-> Val]
VariableExprAST(Name) == [k |-> "var", Name |-> Name]
BinaryExprAST(Op, LHS, RHS) == [k |-> "bin", Op |-> Op, LHS |-> LHS, RHS |-> RHS]
CallExprAST(Callee, Args) == [k |-> "call", Callee |-> Callee, Args |-> Args]
PrototypeAST(Name, Args) == [k |-> "proto", Name |-> Name, Args |-> Args]
FunctionAST(Proto, Body) == [k |-> "func", Proto |-> Proto, Body |-> Body]

---------------------------------------------------------------------------
(* src/bologna/bologna-cmake.cpp: the parser.  A production takes the      *)
(* globals P and returns [node, P]: the node built (Null for nullptr) and  *)
(* the globals it leaves.                                                  *)

\* BinopPrecedence[c] of std::map: a missing key is inserted with value 0.
MapIndex(M, c) == IF c \in DOMAIN M THEN M ELSE M @@ (c :> 0)

\* GetTokPrecedence without "if (TokPrec <= 0) return -1".
GetTokPrecedence_NoFloor(P) ==
    IF ~isascii(P.CurTok) THEN [prec |-> -1, P |-> P]
    ELSE Let([P EXCEPT !.BinopPrecedence = MapIndex(@, P.CurTok)], LAMBDA Q :
             [prec |-> Q.BinopPrecedence[Q.CurTok], P |-> Q])

\* GetTokPrecedence: [prec, P], P being the globals after the lookup.
GetTokPrecedence(P) ==
    IF ~isascii(P.CurTok) THEN [prec |-> -1, P |-> P]
    ELSE Let([P EXCEPT !.BinopPrecedence = MapIndex(@, P.CurTok)], LAMBDA Q :
             IF Q.BinopPrecedence[Q.CurTok] <= 0 THEN [prec |-> -1, P |-> Q]
             ELSE [prec |-> Q.BinopPrecedence[Q.CurTok], P |-> Q])

\* LogError / LogErrorP: the message goes to stderr, nullptr is returned.
\* `at` is the number of gettok calls made when the error was detected.
LogError(P, Str_) ==
    [node |-> Null,
     P |-> [P EXCEPT !.log = Append(@, [kind |-> "Error", msg |-> Str_,
                                        at |-> Len(P.toks)])]]

RECURSIVE ParseExpression(_)
RECURSIVE ParsePrimary(_)
RECURSIVE ParseBinOpRHS(_, _, _)
RECURSIVE ParseCallArgs(_, _)

ParseNumberExpr(P) ==
    [node |-> NumberExprAST(P.NumVal), P |-> getNextToken(P)]

ParseParenExpr(P) ==
    Let(ParseExpression(getNextToken(P)), LAMBDA V :      \* eat (.
        IF V.node = Null THEN V
        ELSE IF V.P.CurTok # 41 THEN LogError(V.P, "expected ')'")
        ELSE [node |-> V.node, P |-> getNextToken(V.P)])  \* eat ).

\* The while (true) loop of ParseIdentifierExpr: the argument list, Null on error.
ParseCallArgs(P, Args) ==
    Let(ParseExpression(P), LAMBDA Arg :
        IF Arg.node = Null THEN Arg
        ELSE IF Arg.P.CurTok = 41
             THEN [node |-> [k |-> "args", Args |-> Append(Args, Arg.node)],
                   P |-> Arg.P]
        ELSE IF Arg.P.CurTok # 44
             THEN LogError(Arg.P, "Expected ')' or ',' in argument list")
        ELSE ParseCallArgs(getNextToken(Arg.P), Append(Args, Arg.node)))

ParseCall(IdName, P2) ==
    Let(IF P2.CurTok # 41 THEN ParseCallArgs(P2, <<>>)
        ELSE [node |-> [k |-> "args", Args |-> <<>>], P |-> P2], LAMBDA al :
        IF al.node = Null THEN al
        ELSE [node |-> CallExprAST(IdName, al.node.Args),
              P |-> getNextToken(al.P)])                  \* eat the ')'.

ParseIdentifierExpr(P) ==
    Let(getNextToken(P), LAMBDA P1 :                      \* eat identifier.
        IF P1.CurTok # 40
        THEN [node |-> VariableExprAST(P.IdentifierStr), P |-> P1]
        ELSE ParseCall(P.IdentifierStr, getNextToken(P1))) \* eat (

ParsePrimary(P) ==
    IF P.CurTok = tok_identifier THEN ParseIdentifierExpr(P)
    ELSE IF P.CurTok = tok_number THEN ParseNumberExpr(P)
    ELSE IF P.CurTok = 40 THEN ParseParenExpr(P)
    ELSE LogError(P, "unknown token when expecting an expression")

\* ParseBinOpRHSMerge, but recursing at TokPrec instead of TokPrec + 1.
ParseBinOpRHSMerge_SameLevel(ExprPrec, LHS, BinOp, TokPrec, RHS) ==
    IF RHS.node = Null THEN RHS
    ELSE Let(GetTokPrecedence(RHS.P), LAMBDA n :
           Let(IF TokPrec < n.prec
               THEN ParseBinOpRHS(TokPrec, RHS.node, n.P)
               ELSE [node |-> RHS.node, P |-> n.P], LAMBDA R :
               IF R.node = Null THEN R
               ELSE ParseBinOpRHS(ExprPrec,
                                  BinaryExprAST(BinOp, LHS, R.node), R.P)))

\* ParseBinOpRHS after the primary RHS: the pending operator takes RHS as its
\* LHS when it binds tighter than BinOp; then LHS and RHS are merged.
ParseBinOpRHSMerge(ExprPrec, LHS, BinOp, TokPrec, RHS) ==
    IF RHS.node = Null THEN RHS
    ELSE Let(GetTokPrecedence(RHS.P), LAMBDA n :
           Let(IF TokPrec < n.prec
               THEN ParseBinOpRHS(TokPrec + 1, RHS.node, n.P)
               ELSE [node |-> RHS.node, P |-> n.P], LAMBDA R :
               IF R.node = Null THEN R
               ELSE ParseBinOpRHS(ExprPrec,
                                  BinaryExprAST(BinOp, LHS, R.node), R.P)))

ParseBinOpRHS(ExprPrec, LHS, P) ==
    Let(GetTokPrecedence(P), LAMBDA t :
        IF t.prec < ExprPrec THEN [node |-> LHS, P |-> t.P]
        ELSE ParseBinOpRHSMerge(ExprPrec, LHS, t.P.CurTok, t.prec,
                                ParsePrimary(getNextToken(t.P))))  \* eat binop

\* ParseExpression, but skipping the offending token when the primary fails.
ParseExpression_SkipsOnError(P) ==
    Let(ParsePrimary(P), LAMBDA LHS :
        IF LHS.node = Null THEN [node |-> Null, P |-> getNextToken(LHS.P)]
        ELSE ParseBinOpRHS(0, LHS.node, LHS.P))

ParseExpression(P) ==
    Let(ParsePrimary(P), LAMBDA LHS :
        IF LHS.node = Null THEN LHS
        ELSE ParseBinOpRHS(0, LHS.node, LHS.P))

\* while (getNextToken() == tok_identifier) ArgNames.push_back(IdentifierStr);
RECURSIVE ReadArgNames(_, _)
\* ReadArgNames, but taking commas between the names.
ReadArgNames_Commas(P, ArgNames) ==
    Let(getNextToken(P), LAMBDA Q :
        IF Q.CurTok = tok_identifier
        THEN ReadArgNames(Q, Append(ArgNames, Q.IdentifierStr))
        ELSE IF Q.CurTok = 44 THEN ReadArgNames(Q, ArgNames)
        ELSE [P |-> Q, ArgNames |-> ArgNames])

ReadArgNames(P, ArgNames) ==
    Let(getNextToken(P), LAMBDA Q :
        IF Q.CurTok = tok_identifier
        THEN ReadArgNames(Q, Append(ArgNames, Q.IdentifierStr))
        ELSE [P |-> Q, ArgNames |-> ArgNames])

ParsePrototype(P) ==
    IF P.CurTok # tok_identifier
    THEN LogError(P, "Expected function name in prototype")
    ELSE Let(getNextToken(P), LAMBDA P1 :
           IF P1.CurTok # 40 THEN LogError(P1, "Expected '(' in prototype")
           ELSE Let(ReadArgNames(P1, <<>>), LAMBDA a :
                  IF a.P.CurTok # 41
                  THEN LogError(a.P, "Expected ')' in prototype")
                  ELSE [node |-> PrototypeAST(P.IdentifierStr, a.ArgNames),
                        P |-> getNextToken(a.P)]))        \* eat ')'.

ParseDefinition(P) ==
    Let(ParsePrototype(getNextToken(P)), LAMBDA Proto :   \* eat def.
        IF Proto.node = Null THEN Proto
        ELSE Let(ParseExpression(Proto.P), LAMBDA E :
               IF E.node # Null
               THEN [node |-> FunctionAST(Proto.node, E.node), P |-> E.P]
               ELSE E))

anon_expr == Str(<<"@">>)    \* stands for the reserved name "__anon_expr"

ParseTopLevelExpr(P) ==
    Let(ParseExpression(P), LAMBDA E :
        IF E.node # Null
        THEN [node |-> FunctionAST(PrototypeAST(anon_expr, <<>>), E.node),
              P |-> E.P]
        ELSE E)

ParseExtern(P) == ParsePrototype(getNextToken(P))        \* eat extern.

---------------------------------------------------------------------------
(* src/Bologna/Bologna/Bologna.cpp: class Lexer over _text = input.        *)
(* Positions are 0-based as in the source.                                 *)

SyntaxToken(kind, position_, text, value) ==
    [Kind |-> kind, Position |-> position_, Text |-> text, Value |-> value]

NoToken == [Kind |-> "none"]

\* char Current() const
Current(p) == IF p >= Len(input) THEN 0 ELSE input[p + 1]

\* _text.substr(start, length), start within the text
substr(start, length) ==
    SubSeq(input, start + 1,
           IF start + length > Len(input) THEN Len(input) ELSE start + length)

\* while (isdigit(Current())) Next();
RECURSIVE SkipDigits(_)
SkipDigits(p) == IF isdigit(Current(p)) THEN SkipDigits(p + 1) ELSE p

\* while (Current() == ' ') Next();
RECURSIVE SkipSpaces(_)
SkipSpaces(p) == IF Current(p) = 32 THEN SkipSpaces(p + 1) ELSE p

\* stoi(text) of a run of digits: std::out_of_range when the value does not
\* fit a 32-bit int.  The digits are compared, never summed beyond the range.
IntMaxDigits == <<2, 1, 4, 7, 4, 8, 3, 6, 4, 7>>

RECURSIVE LexLess(_, _)
LexLess(a, b) ==
    /\ a # <<>>
    /\ \/ Head(a) < Head(b)
       \/ Head(a) = Head(b) /\ LexLess(Tail(a), Tail(b))

StoiOutOfRange(text) ==
    LET d == StripLeadingZeros(DigitRun(text))
    IN  \/ Len(d) > Len(IntMaxDigits)
        \/ Len(d) = Len(IntMaxDigits) /\ LexLess(IntMaxDigits, d)

RECURSIVE DigitsValue(_)
DigitsValue(d) ==
    IF d = <<>> THEN 0 ELSE 10 * DigitsValue(SubSeq(d, 1, Len(d) - 1)) + d[Len(d)]

stoi(text) == DigitsValue(StripLeadingZeros(DigitRun(text)))

SymbolKind(c) ==
    CASE c = 43 -> "PlusToken"
      [] c = 45 -> "MinusToken"
      [] c = 42 -> "StarToken"
      [] c = 47 -> "SlashToken"
      [] c = 40 -> "OpenParenthesesToken"
      [] c = 41 -> "CloseParenthesesToken"
      [] OTHER -> "BadToken"

\* What one call of NextToken returns and leaves: [token, position, exc].
NextTokenEof(p) ==
    [token |-> SyntaxToken("EOFToken", p, <<>>, 0), position |-> p, exc |-> "none"]

NextTokenNumber(p) ==
    LET start == p
        q == SkipDigits(p)
        text == substr(start, q - start)
    IN  IF StoiOutOfRange(text)
        THEN [token |-> NoToken, position |-> q, exc |-> "out_of_range"]
        ELSE [token |-> SyntaxToken("NumberToken", start, text, stoi(text)),
              position |-> q, exc |-> "none"]

NextTokenWhiteSpace(p) ==
    LET start == p
        q == SkipSpaces(p)
    IN  [token |-> SyntaxToken("WhiteSpaceToken", start, substr(start, q - start), 0),
         position |-> q, exc |-> "none"]

NextTokenSymbol(p) ==
    [token |-> SyntaxToken(SymbolKind(Current(p)), p, <<Current(p)>>, 0),
     position |-> p + 1, exc |-> "none"]

\* return SyntaxToken(BadToken, _position++, _text.substr(_position - 1, 1), 0);
\* the two arguments are evaluated in either order.  `order` is the order the
\* build chose: "position_first" reads the byte at the token, "substr_first"
\* the byte before it, and throws std::out_of_range at position 0.
NextTokenBad(p, order) ==
    IF order = "position_first"
    THEN [token |-> SyntaxToken("BadToken", p, substr(p, 1), 0),
          position |-> p + 1, exc |-> "none"]
    ELSE IF p - 1 < 0
         THEN [token |-> NoToken, position |-> p, exc |-> "out_of_range"]
         ELSE [token |-> SyntaxToken("BadToken", p, substr(p - 1, 1), 0),
               position |-> p + 1, exc |-> "none"]

---------------------------------------------------------------------------
(* The inputs the programs are run on.                                     *)

RECURSIVE Concat(_)
Concat(ws) == IF ws = <<>> THEN <<>> ELSE Head(ws) \o Concat(Tail(ws))

SeqsUpTo(V, n) == UNION {[1..k -> V] : k \in 0..n}

\* p0 o1 p1 ... on pn, n <= MaxOps: the leaves are distinct, numbers at the
\* even places and identifiers at the odd ones.
Leaf(i) == IF i % 2 = 0 THEN <<Ch("1") + i>> ELSE <<Ch("a") + i>>

OpChars == {Ch("<"), Ch("+"), Ch("-"), Ch("*"), Ch("/")}

RECURSIVE ExprText(_, _)
ExprText(ops, n) ==
    IF n = 0 THEN Leaf(0)
    ELSE ExprText(ops, n - 1) \o <<Ch(" "), ops[n], Ch(" ")>> \o Leaf(n)

ExprInputs == {ExprText(ops, Len(ops)) : ops \in SeqsUpTo(OpChars, MaxOps)}

\* Every sequence of at most MaxWords of these pieces.
Words == {Str(<<"(">>), Str(<<")">>), Str(<<",">>), Str(<<";">>), Str(<<"f">>),
          Str(<<"1">>), Str(<<"+">>), Str(<<"d", "e", "f", " ">>),
          Str(<<"e", "x", "t", "e", "r", "n", " ">>)}

WordInputs == {Concat(ws) : ws \in SeqsUpTo(Words, MaxWords)}

\* Whitespace, comments, and a number to tell a comment from what follows it.
BlankWords == {Str(<<" ">>), Str(<<"\t">>), Str(<<"\n">>), Str(<<"\r">>),
               Str(<<"#">>), Str(<<"#", "a", "+">>), Str(<<"1">>)}

BlankInputs == {Concat(ws) : ws \in SeqsUpTo(BlankWords, MaxBlank)}

\* def / extern, a name or none, '(' or none, at most MaxParams parameters or
\* commas, ')' or something else, a body or none.
ProtoHeads == {Str(<<"d", "e", "f", " ">>), Str(<<"e", "x", "t", "e", "r", "n", " ">>)}
ProtoNames == {Str(<<"s", "i", "n">>), <<>>, Str(<<"1">>)}
ProtoOpens == {Str(<<"(">>), <<>>}
ProtoParams == {Str(<<"a", " ">>), Str(<<"b", " ">>), Str(<<",">>)}
ProtoCloses == {Str(<<")">>), <<>>, Str(<<";">>)}
ProtoBodies == {<<>>, Str(<<" ", "a", "+", "b">>), Str(<<" ", ")">>)}

ProtoInputs ==
    {h \o n \o o \o Concat(ps) \o c \o b :
        h \in ProtoHeads, n \in ProtoNames, o \in ProtoOpens,
        ps \in SeqsUpTo(ProtoParams, MaxParams), c \in ProtoCloses,
        b \in ProtoBodies}

\* The examples the specification names.
Examples ==
    {Str(<<"1", " ", "+", " ", "2", " ", "*", " ", "3">>),
     Str(<<"1", " ", "*", " ", "2", " ", "+", " ", "3">>),
     Str(<<"1", " ", "-", " ", "2", " ", "-", " ", "3">>),
     Str(<<"(", "1", " ", "+", " ", "2", ")", " ", "*", " ", "3">>),
     Str(<<"f", "o", "o", "(", "1", ",", " ", "2", ")">>),
     Str(<<"f", "o", "o", "(", ")">>),
     Str(<<"e", "x", "t", "e", "r", "n", " ", "s", "i", "n", "(", "x", ")">>),
     Str(<<"d", "e", "f", " ", "a", "d", "d", "(", "a", " ", "b", ")", " ",
           "a", " ", "+", " ", "b">>),
     Str(<<"(">>),
     Str(<<"f", "o", "o", "(", "1", ",">>),
     Str(<<"d", "e", "f">>),
     Str(<<"a", " ", "/", " ", "b">>),
     Str(<<"1", ".", "2", ".", "3", " ", "HI", " ", "0", "0", "7", ".", "5", "0">>)}

ParserInputs == ExprInputs \cup WordInputs \cup BlankInputs \cup ProtoInputs \cup Examples

\* The lines given to the Lexer: at most MaxPieces of these pieces.
Pieces == {Str(<<"7">>), Str(<<"2", "1", "4", "7", "4", "8", "3", "6", "4", "7">>),
           Str(<<"0", "0">>), Str(<<" ">>), Str(<<"+">>), Str(<<"-">>), Str(<<"*">>),
           Str(<<"/">>), Str(<<"(">>), Str(<<")">>), Str(<<"a">>), Str(<<";">>)}

LexerInputs == {Concat(ws) : ws \in SeqsUpTo(Pieces, MaxPieces)}

---------------------------------------------------------------------------
(* The state machine.                                                      *)

EmptyMap == [c \in {} |-> 0]
Zero == [ip |-> <<>>, fp |-> <<>>]

Init ==
    /\ prog \in {"parser", "lexer"}
    /\ input \in (IF prog = "parser" THEN ParserInputs ELSE LexerInputs)
    /\ pc = "start"
    /\ pos = 1
    /\ nread = 0
    /\ LastChar = 32
    /\ IdentifierStr = <<>>
    /\ NumVal = Zero
    /\ CurTok = 0
    /\ BinopPrecedence = EmptyMap
    /\ toks = <<>>
    /\ log = <<>>
    /\ unit = "none"
    /\ unitStart = 0
    /\ logStart = 0
    /\ result = Null
    /\ position = 0
    /\ token = NoToken
    /\ prevToken = NoToken
    /\ exc = "none"

LexerVars == <<position, token, prevToken, exc>>

\* The globals become those of the record P.
Commit(P) ==
    /\ pos' = P.pos
    /\ nread' = P.nread
    /\ LastChar' = P.LastChar
    /\ IdentifierStr' = P.IdentifierStr
    /\ NumVal' = P.NumVal
    /\ CurTok' = P.CurTok
    /\ BinopPrecedence' = P.BinopPrecedence
    /\ toks' = P.toks
    /\ log' = P.log

Begin(u, r) ==
    /\ unit' = u
    /\ unitStart' = Len(toks)
    /\ logStart' = Len(log)
    /\ result' = r

Say(P, text) == [P EXCEPT !.log = Append(@, [kind |-> "Info", msg |-> text, at |-> Len(P.toks)])]

\* BinopPrecedence['<'] = 10; ['+'] = 20; ['-'] = 20; ['*'] = 40;
MapAssign(M, c, v) == [x \in DOMAIN M \cup {c} |-> IF x = c THEN v ELSE M[x]]

Install(M) == MapAssign(MapAssign(MapAssign(MapAssign(M, 60, 10), 43, 20), 45, 20), 42, 40)

\* main(): install the standard binary operators, prime the first token.
main ==
    /\ prog = "parser" /\ pc = "start"
    /\ Commit(getNextToken([St EXCEPT !.BinopPrecedence = Install(@)]))
    /\ pc' = "loop"
    /\ UNCHANGED <<prog, input, unit, unitStart, logStart, result, LexerVars>>

\* MainLoop, case tok_eof: return.
MainLoopEof ==
    /\ prog = "parser" /\ pc = "loop" /\ CurTok = tok_eof
    /\ pc' = "done"
    /\ UNCHANGED <<prog, input, pos, nread, LastChar, IdentifierStr, NumVal, CurTok,
                   BinopPrecedence, toks, log, unit, unitStart, logStart, result,
                   LexerVars>>

\* MainLoop, case ';': ignore top-level semicolons.
MainLoopSemicolon ==
    /\ prog = "parser" /\ pc = "loop" /\ CurTok = 59
    /\ Begin("semicolon", Null)
    /\ Commit(getNextToken(St))
    /\ UNCHANGED <<prog, input, pc, LexerVars>>

\* Handle, but without the skip after a failure.
Handle_NoSkip(r, text) ==
    IF r.node # Null THEN Say(r.P, text) ELSE r.P

\* What the three handlers share: on success the message, on failure one
\* token is skipped for error recovery.
Handle(r, text) ==
    IF r.node # Null THEN Say(r.P, text) ELSE getNextToken(r.P)

HandleDefinition ==
    /\ prog = "parser" /\ pc = "loop" /\ CurTok = tok_def
    /\ LET r == ParseDefinition(St)
       IN  /\ Begin("def", r.node)
           /\ Commit(Handle(r, "Parsed a function definition."))
    /\ UNCHANGED <<prog, input, pc, LexerVars>>

HandleExtern ==
    /\ prog = "parser" /\ pc = "loop" /\ CurTok = tok_extern
    /\ LET r == ParseExtern(St)
       IN  /\ Begin("extern", r.node)
           /\ Commit(Handle(r, "Parsed an extern"))
    /\ UNCHANGED <<prog, input, pc, LexerVars>>

HandleTopLevelExpression ==
    /\ prog = "parser" /\ pc = "loop"
    /\ CurTok \notin {tok_eof, 59, tok_def, tok_extern}
    /\ LET r == ParseTopLevelExpr(St)
       IN  /\ Begin("expr", r.node)
           /\ Commit(Handle(r, "Parsed a top-level expr"))
    /\ UNCHANGED <<prog, input, pc, LexerVars>>

ParserVars == <<pc, pos, nread, LastChar, IdentifierStr, NumVal, CurTok,
                BinopPrecedence, toks, log, unit, unitStart, logStart, result>>

\* Lexer::NextToken, one call.  An exception ends the program.
Returns(r) ==
    /\ position' = r.position
    /\ exc' = r.exc
    /\ token' = r.token
    /\ prevToken' = token

NextToken ==
    /\ prog = "lexer" /\ exc = "none"
    /\ IF position >= Len(input) THEN Returns(NextTokenEof(position))
       ELSE IF isdigit(Current(position)) THEN Returns(NextTokenNumber(position))
       ELSE IF Current(position) = 32 THEN Returns(NextTokenWhiteSpace(position))
       ELSE IF SymbolKind(Current(position)) # "BadToken"
            THEN Returns(NextTokenSymbol(position))
       ELSE \E order \in {"position_first", "substr_first"} :
                Returns(NextTokenBad(position, order))
    /\ UNCHANGED <<prog, input, ParserVars>>

Next ==
    \/ main
    \/ MainLoopEof
    \/ MainLoopSemicolon
    \/ HandleDefinition
    \/ HandleExtern
    \/ HandleTopLevelExpression
    \/ NextToken

Spec == Init /\ [][Next]_vars

---------------------------------------------------------------------------
(* What the claims are stated with.                                        *)

Parsing == prog = "parser" /\ pc # "start"

\* The token of the i-th gettok call; end of input beyond the calls made.
TokAt(i) == IF i \in 1..Len(toks) THEN toks[i] ELSE [tok |-> tok_eof]

LastLog == log[Len(log)]

\* The operators of a tree.
RECURSIVE OpsOf(_)
OpsOf(n) ==
    CASE n.k = "bin" -> {n.Op} \cup OpsOf(n.LHS) \cup OpsOf(n.RHS)
      [] n.k = "call" -> UNION {OpsOf(n.Args[i]) : i \in 1..Len(n.Args)}
      [] n.k = "func" -> OpsOf(n.Body)
      [] OTHER -> {}

\* The reference grammar of binary expressions: three levels, '<' the loosest,
\* then '+' and '-', then '*'; each level groups to the left.
RefLevel(op) == CASE op = 60 -> 1 [] op \in {43, 45} -> 2 [] op = 42 -> 3

RefLeaf(t) ==
    IF t.tok = tok_number THEN NumberExprAST(t.NumVal)
    ELSE VariableExprAST(t.IdentifierStr)

\* The place, among the operators at lo+1, lo+3, ..., hi-1, of the rightmost
\* one of the loosest level: where a left-grouping grammar splits lo..hi.
RefSplit(lo, hi) ==
    CHOOSE j \in {i \in lo + 1..hi - 1 : (i - lo) % 2 = 1} :
        \A i \in {x \in lo + 1..hi - 1 : (x - lo) % 2 = 1} :
            \/ RefLevel(toks[i].tok) > RefLevel(toks[j].tok)
            \/ RefLevel(toks[i].tok) = RefLevel(toks[j].tok) /\ i <= j

RECURSIVE RefTree(_, _)
RefTree(lo, hi) ==
    IF lo = hi THEN RefLeaf(toks[lo])
    ELSE BinaryExprAST(toks[RefSplit(lo, hi)].tok,
                       RefTree(lo, RefSplit(lo, hi) - 1),
                       RefTree(RefSplit(lo, hi) + 1, hi))

\* Everything was lexed, and it is p0 o1 p1 ... on pn with seed operators.
IsBinaryExpression ==
    /\ Len(toks) >= 2 /\ Len(toks) % 2 = 0
    /\ toks[Len(toks)].tok = tok_eof
    /\ \A i \in 1..Len(toks) - 1 :
          IF i % 2 = 1 THEN toks[i].tok \in {tok_number, tok_identifier}
          ELSE toks[i].tok \in {60, 43, 45, 42}

\* The input is whitespace and '#' comments only.
RECURSIVE IsBlankFrom(_, _)
IsBlankFrom(i, inComment) ==
    \/ i > Len(input)
    \/ /\ inComment
       /\ IsBlankFrom(i + 1, input[i] \notin {10, 13})
    \/ /\ ~inComment
       /\ input[i] \in {32, 9, 10, 13, 35}
       /\ IsBlankFrom(i + 1, input[i] = 35)

IsBlank == IsBlankFrom(1, FALSE)

\* The reference prototype acceptor on the tokens after the def / extern at
\* place i: identifier, '(', identifiers, ')'.
RECURSIVE IdRun(_)
IdRun(i) == IF TokAt(i).tok = tok_identifier THEN 1 + IdRun(i + 1) ELSE 0

RefPrototype(i) ==
    IF TokAt(i + 1).tok # tok_identifier
    THEN [ok |-> FALSE, msg |-> "Expected function name in prototype", at |-> i + 1]
    ELSE IF TokAt(i + 2).tok # 40
    THEN [ok |-> FALSE, msg |-> "Expected '(' in prototype", at |-> i + 2]
    ELSE IF TokAt(i + 3 + IdRun(i + 3)).tok # 41
    THEN [ok |-> FALSE, msg |-> "Expected ')' in prototype", at |-> i + 3 + IdRun(i + 3)]
    ELSE [ok |-> TRUE,
          proto |-> PrototypeAST(TokAt(i + 1).IdentifierStr,
                                 [j \in 1..IdRun(i + 3) |-> TokAt(i + 2 + j).IdentifierStr]),
          next |-> i + 4 + IdRun(i + 3)]

PrototypeMessages == {"Expected function name in prototype",
                      "Expected '(' in prototype", "Expected ')' in prototype"}

\* What is left to consume: the unread bytes, the byte held in LastChar and
\* the token held in CurTok.
Remaining ==
    (Len(input) + 1 - pos) + (IF LastChar # EOF THEN 1 ELSE 0)
                           + (IF CurTok # tok_eof THEN 1 ELSE 0)

---------------------------------------------------------------------------
(* The claims.                                                             *)

\* C1: when the input is a parenthesis-free expression p0 o1 p1 ... on pn over
\* the seed operators, the one unit parsed consumed all of it and returned
\* the tree of the reference grammar (tighter operators bind first, equal
\* levels group to the left, leaves in input order).
C1_PrecedenceClimbing ==
    (Parsing /\ IsBinaryExpression) =>
        /\ unit = "expr" /\ unitStart = 1
        /\ result = FunctionAST(PrototypeAST(anon_expr, <<>>),
                                RefTree(1, Len(toks) - 1))
        /\ log = <<[kind |-> "Info", msg |-> "Parsed a top-level expr",
                    at |-> Len(toks)]>>
        /\ CurTok = tok_eof

\* 1 + b * 3 - d was parsed: -(+(1, *(b, 3)), d).
C1_Witness ==
    /\ Parsing /\ IsBinaryExpression /\ Len(toks) = 8
    /\ toks[2].tok = 43 /\ toks[4].tok = 42 /\ toks[6].tok = 45
    /\ result.k = "func" /\ result.Body.Op = 45
    /\ result.Body.LHS.k = "bin" /\ result.Body.LHS.RHS.k = "bin"

\* C2: a unit that fails logged exactly one error, built no node, and made
\* exactly one gettok call after the error was detected, the driver's skip: no
\* production consumed anything on the way up.  A unit that succeeds logged no
\* error.
C2_FailurePropagates ==
    (Parsing /\ unit \in {"def", "extern", "expr"}) =>
        /\ Len(log) = logStart + 1
        /\ CurTok = toks[Len(toks)].tok
        /\ IF result = Null
           THEN /\ LastLog.kind = "Error"
                /\ LastLog.at >= unitStart
                /\ Len(toks) = LastLog.at + 1
           ELSE /\ LastLog.kind = "Info"
                /\ LastLog.at = Len(toks)

\* foo(1,  failed at the end of input, five calls deep, and the driver skipped.
C2_Witness ==
    /\ Parsing /\ unit = "expr" /\ result = Null
    /\ input = Str(<<"f", "o", "o", "(", "1", ",">>)
    /\ LastLog.at = 5 /\ toks[5].tok = tok_eof /\ Len(toks) = 6

\* C3: MainLoop terminates: what is left to consume (the unread bytes, the
\* byte in LastChar, the token in CurTok) is a natural number, every iteration whose lookahead is
\* not Eof consumes a token and leaves strictly less, whether its parse
\* succeeded or failed, and at Eof the loop returns.
C3_MainLoopTerminates ==
    /\ [](Remaining >= 0)
    /\ [][(prog = "parser" /\ pc = "loop") =>
            IF CurTok = tok_eof THEN pc' = "done"
            ELSE /\ pc' = "loop"
                 /\ Len(toks') > Len(toks)
                 /\ Remaining' < Remaining]_vars

\* MainLoop returned after a failed and a successful unit.
C3_Witness ==
    /\ prog = "parser" /\ pc = "done" /\ Len(log) >= 3
    /\ \E i, j \in 1..Len(log) : log[i].kind = "Error" /\ log[j].kind = "Info"

\* C4: once gettok returned Eof, every later call returns Eof, reads nothing
\* and leaves LastChar alone; once NextToken returned the EOF token, the next
\* call returns it again and leaves _position at the end of the text.
C4_EofIdempotent ==
    /\ \A i \in 1..Len(toks) - 1 :
          toks[i].tok = tok_eof =>
              /\ toks[i + 1].tok = tok_eof
              /\ toks[i + 1].nread = toks[i].nread
              /\ toks[i + 1].pos = toks[i].pos
              /\ toks[i + 1].LastChar = toks[i].LastChar
    /\ (token # NoToken /\ token.Kind = "EOFToken") =>
          position = Len(input) /\ token.Position = position
    /\ (prevToken # NoToken /\ prevToken.Kind = "EOFToken") =>
          token = prevToken /\ exc = "none"

\* gettok was called again after it had returned Eof.
C4_Witness ==
    /\ Parsing /\ Len(toks) >= 3
    /\ toks[Len(toks) - 1].tok = tok_eof /\ toks[Len(toks) - 2].tok # tok_eof

\* C5: neither lexer ever fails: every call returns a token, a run of digits
\* of any length is a Number token, an unrecognized byte is its own token.
C5_LexerNeverFails ==
    /\ \A i \in 1..Len(toks) : toks[i].tok \in -5..255
    /\ prog = "lexer" =>
          /\ exc = "none"
          /\ (token # NoToken /\ token.Kind = "BadToken") =>
                token.Text = <<input[token.Position + 1]>>
          /\ (token # NoToken /\ token.Kind # "EOFToken"
                /\ isdigit(input[token.Position + 1])) =>
                token.Kind = "NumberToken"

\* The four entries main installs: '<' 10, '+' 20, '-' 20, '*' 40.
SeedPrecedence == (60 :> 10) @@ (43 :> 20) @@ (45 :> 20) @@ (42 :> 40)

\* C6: after main installed the four entries, BinopPrecedence never changes
\* (neither its keys nor its values).
C6_TableReadOnly == Parsing => BinopPrecedence = SeedPrecedence

\* C7: up to the EOF token the tokens of successive NextToken calls have
\* strictly increasing Position, the cursor is never behind a returned token,
\* and a token's Text is the text from its Position to where the next starts.
C7_PositionsAndText ==
    (prog = "lexer" /\ token # NoToken) =>
        /\ token.Position <= position
        /\ (prevToken # NoToken /\ prevToken.Kind # "EOFToken") =>
              prevToken.Position < token.Position
        /\ token.Text = SubSeq(input, token.Position + 1, position)

\* C8: on an input of whitespace and comments only, the one gettok call the
\* program makes returns Eof: no token is emitted for whitespace or a comment.
C8_BlankInputIsEof ==
    (Parsing /\ IsBlank) =>
        /\ Len(toks) = 1 /\ toks[1].tok = tok_eof /\ CurTok = tok_eof
        /\ log = <<>>

\* A comment ended by a newline, then more blank text, all of it skipped.
C8_Witness ==
    /\ Parsing /\ IsBlank /\ pc = "done" /\ Len(input) >= 3
    /\ \E i, j \in 1..Len(input) :
          i < j /\ j < Len(input) /\ input[i] = 35 /\ input[j] \in {10, 13}

\* C9: after def / extern, ParsePrototype accepts exactly identifier '('
\* identifier* ')': it returns the name and the parameters in source order and
\* consumes through ')'; otherwise it fails at the first token that does not
\* fit, with the message for that place.
C9_Prototype ==
    (Parsing /\ unit \in {"def", "extern"}) =>
        /\ IF ~RefPrototype(unitStart).ok
           THEN /\ result = Null
                /\ LastLog = [kind |-> "Error", msg |-> RefPrototype(unitStart).msg,
                              at |-> RefPrototype(unitStart).at]
           ELSE IF unit = "extern"
           THEN /\ result = RefPrototype(unitStart).proto
                /\ Len(toks) = RefPrototype(unitStart).next
                /\ LastLog.msg = "Parsed an extern"
           ELSE IF result # Null
           THEN /\ result.k = "func"
                /\ result.Proto = RefPrototype(unitStart).proto
                /\ LastLog.msg = "Parsed a function definition."
           ELSE /\ LastLog.kind = "Error"
                /\ LastLog.msg \notin PrototypeMessages
                /\ LastLog.at >= RefPrototype(unitStart).next
        /\ input = Str(<<"d", "e", "f", " ", "a", "d", "d", "(", "a", " ", "b", ")",
                         " ", "a", " ", "+", " ", "b">>) =>
              result = FunctionAST(
                  PrototypeAST(Str(<<"a", "d", "d">>), <<Str(<<"a">>), Str(<<"b">>)>>),
                  BinaryExprAST(43, VariableExprAST(Str(<<"a">>)),
                                VariableExprAST(Str(<<"b">>))))
        /\ input = Str(<<"e", "x", "t", "e", "r", "n", " ", "s", "i", "n", "(", "x", ")">>) =>
              result = PrototypeAST(Str(<<"s", "i", "n">>), <<Str(<<"x">>)>>)

\* A definition with the same parameter name twice was accepted.
C9_Witness ==
    /\ Parsing /\ unit = "def" /\ result # Null
    /\ Len(result.Proto.Args) = 2
    /\ result.Proto.Args[1] = result.Proto.Args[2]
    /\ result.Body.k = "bin"

\* The lookahead has no entry above 0 in the precedence table.
NoPositiveEntry(P) ==
    ~(isascii(P.CurTok) /\ P.CurTok \in DOMAIN P.BinopPrecedence
        /\ P.BinopPrecedence[P.CurTok] > 0)

\* C10: a lookahead with no positive entry in the table ends the expression:
\* ParseBinOpRHS returns its left operand and consumes nothing; no tree holds
\* an operator outside the seed table; an expression that was parsed stopped
\* at such a token; and a unit that starts at one ('/', say) fails at it with
\* "unknown token when expecting an expression".
C10_NotAnOperator ==
    (Parsing /\ pc = "loop") =>
        /\ NoPositiveEntry(St) =>
              \A ExprPrec \in {0, 11, 21, 41} :
                 /\ ParseBinOpRHS(ExprPrec, VariableExprAST(<<97>>), St).node
                       = VariableExprAST(<<97>>)
                 /\ ParseBinOpRHS(ExprPrec, VariableExprAST(<<97>>), St).P.toks = toks
                 /\ ParseBinOpRHS(ExprPrec, VariableExprAST(<<97>>), St).P.CurTok = CurTok
        /\ OpsOf(result) \subseteq {60, 43, 45, 42}
        /\ (unit \in {"def", "expr"} /\ result # Null) => NoPositiveEntry(St)
        /\ (unit = "expr" /\ toks[unitStart].tok \notin {tok_identifier, tok_number, 40}) =>
              /\ result = Null
              /\ LastLog = [kind |-> "Error",
                            msg |-> "unknown token when expecting an expression",
                            at |-> unitStart]
              /\ Len(toks) = unitStart + 1

\* a / b: a was parsed, then the unit starting at '/' failed at '/'.
C10_Witness ==
    /\ Parsing /\ pc = "loop" /\ unit = "expr" /\ result = Null
    /\ input = Str(<<"a", " ", "/", " ", "b">>)
    /\ toks[unitStart].tok = 47 /\ Len(log) = 2 /\ log[1].kind = "Info"
    /\ BinopPrecedence[47] = 0

============================================================================
